---- MODULE Spec2Model ----
(***************************************************************************)
(* Model of 01_anac_od_download.py: url_generate, normalize_prefix,        *)
(* merge_csv_files and main.                                               *)
(*                                                                         *)
(* A Python str is a sequence of one-character strings, so that            *)
(* str.replace, the f-string number formats, int(), the two regular        *)
(* expressions of normalize_prefix, path ordering and text-mode newline    *)
(* handling are all computed character by character.                       *)
(***************************************************************************)
EXTENDS Integers, Sequences, FiniteSets, TLC

VARIABLES
    pc, caller,
    \* url_generate's parameters and its return value
    year_start, year_end, list_months, url_base, key, day, list_url,
    \* normalize_prefix applied once and twice
    file_stem, normalized, renormalized,
    \* merge_csv_files: parameters, the file system, locals, return value
    source_dir, output_dir, prefixes, dirs, fs, dirs0, fs0,
    all_csv_files, pidx, matched_files, fidx, outbuf, merge_result, ret,
    run, ret1, fs1,
    \* main: configuration globals, locals and the order of external calls
    unzip_do, merge_do, url_base_others, anac_other_dataset_names,
    list_urls_din, list_urls_others_din, kidx, list_urls_sta, list_urls_all,
    downloaded, trace

genVars == <<year_start, year_end, list_months, url_base, key, day, list_url>>
normVars == <<file_stem, normalized, renormalized>>
mergeArgs == <<source_dir, output_dir, prefixes>>
mergeLocals == <<all_csv_files, pidx, matched_files, fidx, outbuf, merge_result, ret>>
mergeRuns == <<run, ret1, fs1>>
fsVars == <<dirs, fs, dirs0, fs0>>
mergeVars == <<mergeArgs, mergeLocals, mergeRuns, fsVars>>
mainCfg == <<unzip_do, merge_do, anac_other_dataset_names>>
mainLocals == <<url_base_others, list_urls_din, list_urls_others_din, kidx, list_urls_sta,
               list_urls_all, downloaded>>
mainVars == <<mainCfg, mainLocals, trace>>
vars == <<pc, caller, genVars, normVars, mergeVars, mainVars>>

----------------------------------------------------------------------------
(* Bounds of the model. *)

\* year_start and year_end range over 2020 .. 2020 + MaxYearSpan
MaxYearSpan == 2
\* longest list_months handed to url_generate
MaxMonths == 2
\* longest url_base (pattern list) handed to url_generate
MaxPatterns == 2
\* most segments a generated pattern or file stem is built from
MaxSegs == 3
\* most files initially present in the download directory
MaxFiles == 2
\* longest prefixes list handed to merge_csv_files
MaxPrefixes == 2

Years == 2020 .. (2020 + MaxYearSpan)

SeqsUpTo(S, n) == UNION {[1..k -> S] : k \in 0..n}

RECURSIVE Flatten(_)
Flatten(ss) == IF ss = <<>> THEN <<>> ELSE Head(ss) \o Flatten(Tail(ss))

Range(f) == {f[i] : i \in DOMAIN f}

----------------------------------------------------------------------------
(* Python str primitives. *)

Digit == {"0", "1", "2", "3", "4", "5", "6", "7", "8", "9"}
DigitChars == <<"0", "1", "2", "3", "4", "5", "6", "7", "8", "9">>

DigitVal(c) == CHOOSE d \in 0..9 : DigitChars[d + 1] = c

\* int(s) for a string of decimal digits
RECURSIVE ParseInt(_)
ParseInt(s) ==
    IF s = <<>> THEN 0
    ELSE ParseInt(SubSeq(s, 1, Len(s) - 1)) * 10 + DigitVal(s[Len(s)])

RECURSIVE Digits(_)
Digits(n) ==
    IF n < 10 THEN <<DigitChars[n + 1]>>
    ELSE Digits(n \div 10) \o <<DigitChars[(n % 10) + 1]>>

\* f"{n:0w}": sign first, then zeros up to a total width of w
ZeroPad(n, w) ==
    LET mag == Digits(IF n < 0 THEN 0 - n ELSE n)
        sign == IF n < 0 THEN <<"-">> ELSE <<>>
        fill == w - Len(sign) - Len(mag)
    IN  sign \o [i \in 1..(IF fill > 0 THEN fill ELSE 0) |-> "0"] \o mag

StartsWith(s, p) == Len(s) >= Len(p) /\ SubSeq(s, 1, Len(p)) = p

\* sub in s
Contains(s, sub) ==
    \E i \in 1..(Len(s) - Len(sub) + 1) : SubSeq(s, i, i + Len(sub) - 1) = sub

\* s.replace(old, new) for non-empty old: leftmost, non-overlapping, no rescan
RECURSIVE Replace(_, _, _)
Replace(s, old, new) ==
    IF Len(s) < Len(old) THEN s
    ELSE IF StartsWith(s, old)
         THEN new \o Replace(SubSeq(s, Len(old) + 1, Len(s)), old, new)
         ELSE <<Head(s)>> \o Replace(Tail(s), old, new)

----------------------------------------------------------------------------
(* url_generate *)

PH_YYYY == <<"{", "Y", "Y", "Y", "Y", "}">>
PH_MM == <<"{", "M", "M", "}">>
PH_DD == <<"{", "D", "D", "}">>
PH_DATASET == <<"{", "d", "a", "t", "a", "s", "e", "t", "-", "n", "a", "m", "e", "}">>
Placeholders == {PH_YYYY, PH_MM, PH_DD, PH_DATASET}

\* lines 69-76 with the {DD} replacement forgotten
SubstituteNoDay(pattern, year_str, month_str, day_str, k) ==
    LET url == Replace(Replace(pattern, PH_YYYY, year_str), PH_MM, month_str)
    IN  IF Contains(url, PH_DATASET) THEN Replace(url, PH_DATASET, k) ELSE url

\* lines 69-76: one pattern turned into one URL
Substitute(pattern, year_str, month_str, day_str, k) ==
    LET url == Replace(Replace(Replace(pattern, PH_YYYY, year_str),
                               PH_MM, month_str),
                       PH_DD, day_str)
    IN  IF Contains(url, PH_DATASET) THEN Replace(url, PH_DATASET, k) ELSE url

\* lines 68-77: for pattern in url_base, from the j-th pattern on
RECURSIVE PatternLoop(_, _, _, _, _, _)
PatternLoop(j, patterns, year_str, month_str, day_str, k) ==
    IF j > Len(patterns) THEN <<>>
    ELSE <<Substitute(patterns[j], year_str, month_str, day_str, k)>>
         \o PatternLoop(j + 1, patterns, year_str, month_str, day_str, k)

\* the loops nested the other way round: patterns outside, months inside
RECURSIVE MonthInnerLoop(_, _, _, _, _, _)
MonthInnerLoop(i, months, pattern, year_str, d, k) ==
    IF i > Len(months) THEN <<>>
    ELSE <<Substitute(pattern, year_str, ZeroPad(ParseInt(months[i]), 2),
                      ZeroPad(ParseInt(d), 2), k)>>
         \o MonthInnerLoop(i + 1, months, pattern, year_str, d, k)

RECURSIVE MonthLoopSwapped(_, _, _, _, _, _)
MonthLoopSwapped(j, months, patterns, year_str, d, k) ==
    IF j > Len(patterns) THEN <<>>
    ELSE MonthInnerLoop(1, months, patterns[j], year_str, d, k)
         \o MonthLoopSwapped(j + 1, months, patterns, year_str, d, k)

\* lines 65-77: for month in list_months, from the i-th month on
RECURSIVE MonthLoop(_, _, _, _, _, _)
MonthLoop(i, months, patterns, year_str, d, k) ==
    IF i > Len(months) THEN <<>>
    ELSE PatternLoop(1, patterns, year_str, ZeroPad(ParseInt(months[i]), 2),
                     ZeroPad(ParseInt(d), 2), k)
         \o MonthLoop(i + 1, months, patterns, year_str, d, k)

\* lines 63-77: for year in range(year_start, year_end + 1), from year on
RECURSIVE YearLoop(_, _, _, _, _, _)
YearLoop(year, last, months, patterns, k, d) ==
    IF year > last THEN <<>>
    ELSE MonthLoop(1, months, patterns, ZeroPad(year, 4), d, k)
         \o YearLoop(year + 1, last, months, patterns, k, d)

\* range(year_start, year_end): the last year left out
UrlGenerateExclusive(ys, ye, months, patterns, k, d) ==
    YearLoop(ys, ye - 1, months, patterns, k, d)

\* lines 46-78: list_url, returned
UrlGenerate(ys, ye, months, patterns, k, d) ==
    YearLoop(ys, ye, months, patterns, k, d)

----------------------------------------------------------------------------
(* normalize_prefix *)

\* ^\d{8}-
HasLeadingStamp(s) ==
    /\ Len(s) >= 9
    /\ \A i \in 1..8 : s[i] \in Digit
    /\ s[9] = "-"

\* _\d{4}_\d{2}$
HasTrailingStamp(s) ==
    LET n == Len(s)
    IN  /\ n >= 8
        /\ s[n - 7] = "_"
        /\ \A i \in (n - 6)..(n - 3) : s[i] \in Digit
        /\ s[n - 2] = "_"
        /\ s[n - 1] \in Digit
        /\ s[n] \in Digit

\* line 98: re.sub(r'^\d{8}-', '', file_stem)
StripLeading(s) == IF HasLeadingStamp(s) THEN SubSeq(s, 10, Len(s)) ELSE s

\* the year part of the pattern forgotten: re.sub(r'_\d{2}$', '', s)
StripTrailingNoYear(s) ==
    LET n == Len(s)
    IN  IF n >= 3 /\ s[n - 2] = "_" /\ s[n - 1] \in Digit /\ s[n] \in Digit
        THEN SubSeq(s, 1, n - 3) ELSE s

\* line 99: re.sub(r'_\d{4}_\d{2}$', '', normalized)
StripTrailing(s) == IF HasTrailingStamp(s) THEN SubSeq(s, 1, Len(s) - 8) ELSE s

\* lines 97-100
NormalizePrefix(stem) == StripTrailing(StripLeading(stem))

----------------------------------------------------------------------------
(* Values the variables hold while the code they belong to is not running. *)

GenIdle ==
    /\ year_start = 0 /\ year_end = 0 /\ list_months = <<>> /\ url_base = <<>>
    /\ key = <<>> /\ day = <<>> /\ list_url = <<>>

NormIdle == file_stem = <<>> /\ normalized = <<>> /\ renormalized = <<>>

MergeLocalsIdle ==
    /\ all_csv_files = <<>> /\ pidx = 0 /\ matched_files = <<>> /\ fidx = 0
    /\ outbuf = <<>> /\ merge_result = <<>> /\ ret = <<>>
    /\ run = 0 /\ ret1 = <<>> /\ fs1 = <<>>

MergeIdle ==
    /\ source_dir = "" /\ output_dir = "" /\ prefixes = <<>>
    /\ dirs = {} /\ fs = <<>> /\ dirs0 = {} /\ fs0 = <<>>
    /\ MergeLocalsIdle

MainLocalsIdle ==
    /\ url_base_others = <<>>
    /\ list_urls_din = <<>> /\ list_urls_others_din = <<>> /\ kidx = 0
    /\ list_urls_sta = <<>> /\ list_urls_all = <<>> /\ downloaded = <<>>
    /\ trace = <<>>

MainIdle ==
    /\ unzip_do = FALSE /\ merge_do = FALSE
    /\ anac_other_dataset_names = <<>>
    /\ MainLocalsIdle

----------------------------------------------------------------------------
(* url_generate called on bounded inputs. *)

S_cig == <<"c", "i", "g">>
S_smartcig == <<"s", "m", "a", "r", "t", "c", "i", "g">>

\* "https://x/{dataset-name}/{YYYY}/{MM}.zip"
PatternExample == <<"h", "t", "t", "p", "s", ":", "/", "/", "x", "/">> \o PH_DATASET \o <<"/">> \o PH_YYYY
                  \o <<"/">> \o PH_MM \o <<".", "z", "i", "p">>
\* "u/{YYYY}{MM}{DD}": no {dataset-name}
PatternDated == <<"u", "/">> \o PH_YYYY \o PH_MM \o PH_DD

PatternPool == {PatternExample, PatternDated}
MonthPool == {<<"0", "1">>, <<"0", "2">>, <<"7">>}
\* a key with the default day, another key with a day that is not zero-padded
KeyDayPool == {<<S_cig, <<"0", "1">>>>, <<S_smartcig, <<"5">>>>}

InitExpand ==
    /\ pc = "gen_call" /\ caller = "none"
    /\ year_start \in Years /\ year_end \in Years
    /\ list_months \in SeqsUpTo(MonthPool, MaxMonths)
    /\ url_base \in SeqsUpTo(PatternPool, MaxPatterns)
    /\ \E kd \in KeyDayPool : key = kd[1] /\ day = kd[2]
    /\ list_url = <<>>
    /\ NormIdle /\ MergeIdle /\ MainIdle

\* line 200: list_url = url_generate(year_start, year_end, list_months, url_base, key, day)
CallUrlGenerate ==
    /\ pc = "gen_call"
    /\ list_url' = UrlGenerate(year_start, year_end, list_months, url_base, key, day)
    /\ pc' = "gen_done"
    /\ UNCHANGED <<caller, year_start, year_end, list_months, url_base, key, day,
                   normVars, mergeVars, mainVars>>

NextExpand == CallUrlGenerate

SpecExpand == InitExpand /\ [][NextExpand]_vars

(* Patterns assembled from placeholders and literal pieces, literal braces
   included, and dataset keys with and without braces. *)
SegmentPool == Placeholders \cup {<<"x">>, <<"{", "M">>, <<"}">>}
KeyPool == {S_cig, <<"M">>, <<>>, PH_MM}

InitSubst ==
    /\ pc = "gen_call" /\ caller = "none"
    /\ year_start = 2021 /\ year_end = 2021
    /\ list_months = << <<"3">> >>
    /\ \E segs \in SeqsUpTo(SegmentPool, MaxSegs) : url_base = <<Flatten(segs)>>
    /\ key \in KeyPool
    /\ day = <<"0", "1">>
    /\ list_url = <<>>
    /\ NormIdle /\ MergeIdle /\ MainIdle

SpecSubst == InitSubst /\ [][NextExpand]_vars

----------------------------------------------------------------------------
(* normalize_prefix applied to a file stem, and again to its own result. *)

StemSegmentPool ==
    { <<"2", "0", "2", "4", "0", "1", "1", "5", "-">>,
      <<"_", "2", "0", "2", "4", "_", "0", "1">>,
      <<"_", "0", "1">>,
      <<"2", "0", "2", "4">>,
      <<"a">>, <<"-">> }

InitNorm ==
    /\ pc = "norm_call" /\ caller = "none"
    /\ \E segs \in SeqsUpTo(StemSegmentPool, MaxSegs) : file_stem = Flatten(segs)
    /\ normalized = <<>> /\ renormalized = <<>>
    /\ GenIdle /\ MergeIdle /\ MainIdle

\* line 117: normalize_prefix(csv_file.stem), then once more on the result
CallNormalizeTwice ==
    /\ pc = "norm_call"
    /\ normalized' = NormalizePrefix(file_stem)
    /\ renormalized' = NormalizePrefix(NormalizePrefix(file_stem))
    /\ pc' = "norm_done"
    /\ UNCHANGED <<caller, file_stem, genVars, mergeVars, mainVars>>

NextNorm == CallNormalizeTwice

SpecNorm == InitNorm /\ [][NextNorm]_vars

----------------------------------------------------------------------------
(* The file system, as merge_csv_files sees it. A path is <<directory, file
   name>>; fs maps the paths of the files that exist to their contents, dirs
   is the set of directories that exist. *)

LF == "\n"
CR == "\r"
DotCsv == <<".", "c", "s", "v">>

\* code-point order of the characters file names are made of
CharOrder ==
    <<"-", ".", "0", "1", "2", "3", "4", "5", "6", "7", "8", "9", "_",
      "a", "b", "c", "d", "e", "f", "g", "h", "i", "j", "k", "l", "m",
      "n", "o", "p", "q", "r", "s", "t", "u", "v", "w", "x", "y", "z">>

CharCode(c) == CHOOSE i \in 1..Len(CharOrder) : CharOrder[i] = c

\* a < b for two str (line 111: sorted compares the paths of one directory)
RECURSIVE NameLess(_, _)
NameLess(a, b) ==
    IF b = <<>> THEN FALSE
    ELSE IF a = <<>> THEN TRUE
    ELSE IF Head(a) = Head(b) THEN NameLess(Tail(a), Tail(b))
    ELSE CharCode(Head(a)) < CharCode(Head(b))

\* line 111: sorted(...)
RECURSIVE SortNames(_)
SortNames(S) ==
    IF S = {} THEN <<>>
    ELSE LET first == CHOOSE x \in S : \A y \in S \ {x} : NameLess(x, y)
         IN  <<first>> \o SortNames(S \ {first})

EndsWith(s, suffix) ==
    Len(s) >= Len(suffix) /\ SubSeq(s, Len(s) - Len(suffix) + 1, Len(s)) = suffix

\* line 111: source_path.glob('*.csv'), as file names
GlobCsv(files, dir) == {p[2] : p \in {q \in DOMAIN files : q[1] = dir /\ EndsWith(q[2], DotCsv)}}

\* line 117: csv_file.stem of a name that ends in .csv
Stem(name) == SubSeq(name, 1, Len(name) - Len(DotCsv))

\* line 129: infile.read() of a file opened with mode='r': universal newlines
\* turn "\r\n" and "\r" into "\n"
RECURSIVE ReadText(_)
ReadText(bytes) ==
    IF bytes = <<>> THEN <<>>
    ELSE IF Head(bytes) = CR
         THEN <<LF>> \o ReadText(IF Len(bytes) >= 2 /\ bytes[2] = LF
                                  THEN SubSeq(bytes, 3, Len(bytes))
                                  ELSE Tail(bytes))
         ELSE <<Head(bytes)>> \o ReadText(Tail(bytes))

\* line 129: outfile.write(...) of a file opened with mode='w' where
\* os.linesep is "\n" (POSIX): each "\n" is written as os.linesep
WriteText(text) == text

\* line 133: sum(1 for _ in file) over the text of the file
RECURSIVE CountLines(_, _)
CountLines(text, open) ==
    IF text = <<>> THEN (IF open THEN 1 ELSE 0)
    ELSE IF Head(text) = LF THEN 1 + CountLines(Tail(text), FALSE)
    ELSE CountLines(Tail(text), TRUE)

LineCount(bytes) == CountLines(ReadText(bytes), FALSE)

WriteFile(files, path, bytes) ==
    [q \in DOMAIN files \cup {path} |-> IF q = path THEN bytes ELSE files[q]]

Prefixes(s) == {SubSeq(s, 1, k) : k \in 0..Len(s)}

EmptyMap == <<>>

----------------------------------------------------------------------------
(* merge_csv_files *)

\* lines 123-124: output_path / f"{prefix_name}.csv"
CurrentOutputPath == <<output_dir, prefixes[pidx] \o DotCsv>>

\* lines 93-112, with the missing source directory raised as an error
MergeEnterRaising ==
    /\ pc = "m_entry"
    /\ dirs' = dirs \cup {output_dir}
    /\ dirs0' = dirs /\ fs0' = fs
    /\ IF source_dir \notin dirs' \/ prefixes = <<>>
       THEN /\ pc' = "m_raised"
            /\ UNCHANGED <<all_csv_files, merge_result, pidx, ret>>
       ELSE /\ all_csv_files' = SortNames(GlobCsv(fs, source_dir))
            /\ merge_result' = EmptyMap
            /\ pidx' = 1
            /\ pc' = "m_prefix"
            /\ UNCHANGED ret
    /\ UNCHANGED <<caller, mergeArgs, fs, matched_files, fidx, outbuf, mergeRuns,
                   genVars, normVars, mainVars>>

\* lines 93-112: mkdir of the output directory, the two early returns, the
\* sorted glob
MergeEnter ==
    /\ pc = "m_entry"
    /\ dirs' = dirs \cup {output_dir}
    /\ dirs0' = dirs /\ fs0' = fs
    /\ IF source_dir \notin dirs' \/ prefixes = <<>>
       THEN /\ ret' = EmptyMap
            /\ pc' = "m_done"
            /\ UNCHANGED <<all_csv_files, merge_result, pidx>>
       ELSE /\ all_csv_files' = SortNames(GlobCsv(fs, source_dir))
            /\ merge_result' = EmptyMap
            /\ pidx' = 1
            /\ pc' = "m_prefix"
            /\ UNCHANGED ret
    /\ UNCHANGED <<caller, mergeArgs, fs, matched_files, fidx, outbuf, mergeRuns,
                   genVars, normVars, mainVars>>

MatchesPrefix(name) == NormalizePrefix(Stem(name)) = prefixes[pidx]

\* lines 114-126: the next prefix: its matched files; none, continue; else
\* open the output file for writing, which creates or truncates it
PrefixStart ==
    /\ pc = "m_prefix"
    /\ pidx <= Len(prefixes)
    /\ LET matched == SelectSeq(all_csv_files, MatchesPrefix)
       IN  IF matched = <<>>
           THEN /\ pidx' = pidx + 1
                /\ UNCHANGED <<pc, matched_files, fidx, outbuf, fs>>
           ELSE /\ matched_files' = matched
                /\ fs' = WriteFile(fs, CurrentOutputPath, <<>>)
                /\ outbuf' = <<>>
                /\ fidx' = 1
                /\ pc' = "m_copy"
                /\ UNCHANGED pidx
    /\ UNCHANGED <<caller, mergeArgs, dirs, dirs0, fs0, all_csv_files, merge_result,
                   ret, mergeRuns, genVars, normVars, mainVars>>

\* lines 127-130: one matched file read whole and written to the output
\* file. What was written is buffered: when the file read is the open output
\* file itself, the part of the buffer already flushed is what is on disk.
CopyFile ==
    /\ pc = "m_copy"
    /\ fidx <= Len(matched_files)
    /\ LET path == <<source_dir, matched_files[fidx]>>
       IN  \E ondisk \in (IF path = CurrentOutputPath
                          THEN Prefixes(WriteText(outbuf))
                          ELSE {fs[path]}) :
               outbuf' = outbuf \o ReadText(ondisk)
    /\ fidx' = fidx + 1
    /\ UNCHANGED <<pc, caller, mergeArgs, fsVars, all_csv_files, pidx, matched_files,
                   merge_result, ret, mergeRuns, genVars, normVars, mainVars>>

\* lines 132-139 with the number of files taken from the whole listing
FinishPrefixCountAll ==
    /\ pc = "m_copy"
    /\ fidx > Len(matched_files)
    /\ fs' = WriteFile(fs, CurrentOutputPath, WriteText(outbuf))
    /\ merge_result' =
          [q \in DOMAIN merge_result \cup {prefixes[pidx]} |->
              IF q = prefixes[pidx]
              THEN [output_file |-> CurrentOutputPath,
                    files_merged |-> Len(all_csv_files),
                    lines |-> LineCount(WriteText(outbuf))]
              ELSE merge_result[q]]
    /\ pidx' = pidx + 1
    /\ pc' = "m_prefix"
    /\ UNCHANGED <<caller, mergeArgs, dirs, dirs0, fs0, all_csv_files, matched_files,
                   fidx, outbuf, ret, mergeRuns, genVars, normVars, mainVars>>

\* lines 126-139: the output file closed (its buffer reaches the disk), its
\* lines counted, the prefix's entry stored
FinishPrefix ==
    /\ pc = "m_copy"
    /\ fidx > Len(matched_files)
    /\ fs' = WriteFile(fs, CurrentOutputPath, WriteText(outbuf))
    /\ merge_result' =
          [q \in DOMAIN merge_result \cup {prefixes[pidx]} |->
              IF q = prefixes[pidx]
              THEN [output_file |-> CurrentOutputPath,
                    files_merged |-> Len(matched_files),
                    lines |-> LineCount(WriteText(outbuf))]
              ELSE merge_result[q]]
    /\ pidx' = pidx + 1
    /\ pc' = "m_prefix"
    /\ UNCHANGED <<caller, mergeArgs, dirs, dirs0, fs0, all_csv_files, matched_files,
                   fidx, outbuf, ret, mergeRuns, genVars, normVars, mainVars>>

\* line 146: return merge_result
MergeReturn ==
    /\ pc = "m_prefix"
    /\ pidx > Len(prefixes)
    /\ ret' = merge_result
    /\ pc' = "m_done"
    /\ UNCHANGED <<caller, mergeArgs, fsVars, all_csv_files, pidx, matched_files, fidx,
                   outbuf, merge_result, mergeRuns, genVars, normVars, mainVars>>

\* the same call made a second time, on the file system the first call left
CallAgain ==
    /\ pc = "m_done"
    /\ caller = "none"
    /\ run = 1
    /\ run' = 2 /\ ret1' = ret /\ fs1' = fs
    /\ all_csv_files' = <<>> /\ pidx' = 0 /\ matched_files' = <<>> /\ fidx' = 0
    /\ outbuf' = <<>> /\ merge_result' = EmptyMap /\ ret' = EmptyMap
    /\ pc' = "m_entry"
    /\ UNCHANGED <<caller, mergeArgs, fsVars, genVars, normVars, mainVars>>

MergeStep == MergeEnter \/ PrefixStart \/ CopyFile \/ FinishPrefix \/ MergeReturn

----------------------------------------------------------------------------
(* merge_csv_files called on bounded directories and prefix lists. *)

S_a == <<"a">>
S_b == <<"b">>

\* "x\nx\n", "x\nx\nx\n": two and three terminated lines
Text2 == <<"x", LF, "x", LF>>
Text3 == <<"x", LF, "x", LF, "x", LF>>
\* "x\nx": the last line not terminated
TextNoEol == <<"x", LF, "x">>
\* "x\r\n": one line, terminated the Windows way
TextCrLf == <<"x", CR, LF>>

N_a == <<"a", ".", "c", "s", "v">>
N_a_01 == <<"a", "_", "2", "0", "2", "4", "_", "0", "1", ".", "c", "s", "v">>
N_a_02 == <<"a", "_", "2", "0", "2", "4", "_", "0", "2", ".", "c", "s", "v">>
N_dated_a == <<"2", "0", "2", "4", "0", "1", "1", "5", "-", "a", ".", "c", "s", "v">>
N_b_01 == <<"b", "_", "2", "0", "2", "4", "_", "0", "1", ".", "c", "s", "v">>
N_a_short == <<"a", "_", "2", "0", "2", "4", "_", "1", ".", "c", "s", "v">>
N_a_zip == <<"a", "_", "2", "0", "2", "4", "_", "0", "3", ".", "z", "i", "p">>

\* the files the download directory may hold, each with its possible contents
FileOptions ==
    (N_a :> {Text2}) @@ (N_a_01 :> {Text2, TextNoEol, TextCrLf}) @@ (N_a_02 :> {Text3})
    @@ (N_dated_a :> {Text3}) @@ (N_b_01 :> {Text2, TextNoEol})
    @@ (N_a_short :> {Text2}) @@ (N_a_zip :> {Text2})

PrefixPool == {S_a, S_b}

InitMerge ==
    /\ pc = "m_entry" /\ caller = "none"
    /\ source_dir \in {"dl", "gone"}
    /\ output_dir \in {"dl", "data", "gone"}
    /\ output_dir = "gone" => source_dir = "gone"
    /\ prefixes \in SeqsUpTo(PrefixPool, MaxPrefixes)
    /\ \E names \in SUBSET DOMAIN FileOptions :
       \E stale \in BOOLEAN :
          /\ Cardinality(names) <= MaxFiles
          /\ stale => output_dir = "data"
          /\ dirs = IF stale THEN {"dl", "data"} ELSE {"dl"}
          /\ \E content \in [names -> UNION Range(FileOptions)] :
                /\ \A n \in names : content[n] \in FileOptions[n]
                /\ fs = [p \in ({"dl"} \X names) \cup (IF stale THEN {<<"data", N_a>>} ELSE {})
                           |-> IF p[1] = "dl" THEN content[p[2]] ELSE Text3]
    /\ dirs0 = {} /\ fs0 = <<>>
    /\ all_csv_files = <<>> /\ pidx = 0 /\ matched_files = <<>> /\ fidx = 0
    /\ outbuf = <<>> /\ merge_result = EmptyMap /\ ret = EmptyMap
    /\ run = 1 /\ ret1 = EmptyMap /\ fs1 = <<>>
    /\ GenIdle /\ NormIdle /\ MainIdle

NextMerge == MergeStep \/ CallAgain

SpecMerge == InitMerge /\ [][NextMerge]_vars

----------------------------------------------------------------------------
(* main. The services of utility_manager and config are external: each call
   is one step that returns; what it reads from a JSON file or leaves on disk
   is chosen from a small set. trace lists the external calls, the skip
   notices and the merge call in the order they happen. *)

\* line 26: [f"{i:02}" for i in range(1, 13)]
ListMonths == [i \in 1..12 |-> ZeroPad(i, 2)]
\* line 46: day: str = "01"
DefaultDay == <<"0", "1">>
\* lines 41-42: ANAC_DOWNLOAD_DIR, OD_ANAC_DIR
AnacDownloadDir == "dl"
DataDir == "data"

\* what read_urls_from_json may return for each file and key
PrimaryPatternLists == {<<>>, <<PatternExample>>, <<PatternExample, PatternDated>>}
OtherPatternLists == {<<>>, <<PatternExample>>, <<PatternDated>>}
StaticUrlLists == {<<>>, << <<"s">>, <<"t">> >>}
PrefixLists == {<<>>, <<S_a>>}
OtherNameLists == {<<>>, <<S_smartcig>>, <<S_smartcig, S_b>>}
\* what url_unzip may leave in the download directory
UnzippedFiles ==
    {<<>>, (<<AnacDownloadDir, N_a_01>> :> Text2) @@ (<<AnacDownloadDir, N_a_02>> :> Text3)}

InitMain ==
    /\ pc = "main_start" /\ caller = "main"
    /\ year_start \in Years /\ year_end \in Years
    /\ list_months = ListMonths
    /\ url_base = <<>> /\ key = <<>> /\ day = DefaultDay /\ list_url = <<>>
    /\ unzip_do \in BOOLEAN /\ merge_do \in BOOLEAN
    /\ anac_other_dataset_names \in OtherNameLists
    /\ MainLocalsIdle
    /\ source_dir = "" /\ output_dir = "" /\ prefixes = <<>>
    /\ dirs = {} /\ fs = <<>> /\ dirs0 = {} /\ fs0 = <<>>
    /\ MergeLocalsIdle
    /\ NormIdle

\* lines 194-195: check_and_create_directory, twice
MainCreateDirs ==
    /\ pc = "main_start"
    /\ dirs' = dirs \cup {AnacDownloadDir, DataDir}
    /\ pc' = "main_gen_cig"
    /\ UNCHANGED <<caller, genVars, normVars, mergeArgs, mergeLocals, mergeRuns, fs,
                   dirs0, fs0, mainVars>>

\* lines 199-201: the primary patterns read and expanded with the key "cig"
MainGenerateCig ==
    /\ pc = "main_gen_cig"
    /\ \E read \in PrimaryPatternLists :
          /\ url_base' = read
          /\ list_urls_din' = UrlGenerate(year_start, year_end, list_months, read,
                                          S_cig, DefaultDay)
    /\ pc' = "main_read_others"
    /\ UNCHANGED <<caller, year_start, year_end, list_months, key, day, list_url,
                   normVars, mergeVars, mainCfg, url_base_others, list_urls_others_din,
                   kidx, list_urls_sta, list_urls_all, downloaded, trace>>

\* lines 207-208
MainReadOthers ==
    /\ pc = "main_read_others"
    /\ url_base_others' \in OtherPatternLists
    /\ list_urls_others_din' = <<>>
    /\ kidx' = 1
    /\ pc' = "main_gen_others"
    /\ UNCHANGED <<caller, genVars, normVars, mergeVars, mainCfg, list_urls_din,
                   list_urls_sta, list_urls_all, downloaded, trace>>

\* lines 209-212 with every expansion made for the key "cig"
MainExtendOthersCigKey ==
    /\ pc = "main_gen_others"
    /\ kidx <= Len(anac_other_dataset_names)
    /\ list_urls_others_din' =
          list_urls_others_din \o
          UrlGenerate(year_start, year_end, list_months, url_base_others,
                      S_cig, DefaultDay)
    /\ kidx' = kidx + 1
    /\ UNCHANGED <<pc, caller, genVars, normVars, mergeVars, mainCfg, url_base_others,
                   list_urls_din, list_urls_sta, list_urls_all, downloaded, trace>>

\* lines 209-212: one dataset name expanded and appended
MainExtendOthers ==
    /\ pc = "main_gen_others"
    /\ kidx <= Len(anac_other_dataset_names)
    /\ list_urls_others_din' =
          list_urls_others_din \o
          UrlGenerate(year_start, year_end, list_months, url_base_others,
                      anac_other_dataset_names[kidx], DefaultDay)
    /\ kidx' = kidx + 1
    /\ UNCHANGED <<pc, caller, genVars, normVars, mergeVars, mainCfg, url_base_others,
                   list_urls_din, list_urls_sta, list_urls_all, downloaded, trace>>

\* line 219
MainReadStatic ==
    /\ pc = "main_gen_others"
    /\ kidx > Len(anac_other_dataset_names)
    /\ list_urls_sta' \in StaticUrlLists
    /\ pc' = "main_concat"
    /\ UNCHANGED <<caller, genVars, normVars, mergeVars, mainCfg, url_base_others,
                   list_urls_din, list_urls_others_din, kidx, list_urls_all,
                   downloaded, trace>>

\* line 226
MainConcat ==
    /\ pc = "main_concat"
    /\ list_urls_all' = list_urls_din \o list_urls_others_din \o list_urls_sta
    /\ pc' = "main_download"
    /\ UNCHANGED <<caller, genVars, normVars, mergeVars, mainCfg, url_base_others,
                   list_urls_din, list_urls_others_din, kidx, list_urls_sta,
                   downloaded, trace>>

\* line 235: url_download(list_urls_all, anac_download_dir)
MainDownload ==
    /\ pc = "main_download"
    /\ downloaded' = list_urls_all
    /\ trace' = Append(trace, "download")
    /\ pc' = "main_unzip"
    /\ UNCHANGED <<caller, genVars, normVars, mergeVars, mainCfg, url_base_others,
                   list_urls_din, list_urls_others_din, kidx, list_urls_sta,
                   list_urls_all>>

\* lines 241-247 with the test of the flag inverted
MainUnzipInverted ==
    /\ pc = "main_unzip"
    /\ IF unzip_do = TRUE
       THEN /\ trace' = Append(trace, "unzip_skipped")
            /\ UNCHANGED fs
       ELSE /\ trace' = Append(trace, "unzip")
            /\ \E new \in UnzippedFiles : fs' = new @@ fs
    /\ pc' = "main_merge"
    /\ UNCHANGED <<caller, genVars, normVars, mergeArgs, mergeLocals, mergeRuns, dirs,
                   dirs0, fs0, mainCfg, mainLocals>>

\* lines 241-247: url_unzip(anac_download_dir), or the notice that it is skipped
MainUnzip ==
    /\ pc = "main_unzip"
    /\ IF unzip_do = FALSE
       THEN /\ trace' = Append(trace, "unzip_skipped")
            /\ UNCHANGED fs
       ELSE /\ trace' = Append(trace, "unzip")
            /\ \E new \in UnzippedFiles : fs' = new @@ fs
    /\ pc' = "main_merge"
    /\ UNCHANGED <<caller, genVars, normVars, mergeArgs, mergeLocals, mergeRuns, dirs,
                   dirs0, fs0, mainCfg, mainLocals>>

\* lines 250-264: the notice that merging is skipped, or the prefixes read
\* and, when there are any, merge_csv_files called
MainMerge ==
    /\ pc = "main_merge"
    /\ IF merge_do = FALSE
       THEN /\ trace' = Append(trace, "merge_skipped")
            /\ pc' = "main_end"
            /\ UNCHANGED mergeArgs
       ELSE \E read \in PrefixLists :
               /\ prefixes' = read
               /\ IF read = <<>>
                  THEN /\ trace' = Append(trace, "read_prefixes")
                       /\ pc' = "main_end"
                       /\ UNCHANGED <<source_dir, output_dir>>
                  ELSE /\ trace' = trace \o <<"read_prefixes", "merge">>
                       /\ source_dir' = AnacDownloadDir
                       /\ output_dir' = DataDir
                       /\ pc' = "m_entry"
    /\ UNCHANGED <<caller, genVars, normVars, mergeLocals, mergeRuns, fsVars, mainCfg,
                   mainLocals>>

\* lines 264-279: merge_csv_files has returned; the summary is printed
MainMergeReturned ==
    /\ pc = "m_done"
    /\ caller = "main"
    /\ trace' = Append(trace, "merge_returned")
    /\ pc' = "main_end"
    /\ UNCHANGED <<caller, genVars, normVars, mergeVars, mainCfg, mainLocals>>

NextMain ==
    \/ MainCreateDirs \/ MainGenerateCig \/ MainReadOthers \/ MainExtendOthers
    \/ MainReadStatic \/ MainConcat \/ MainDownload \/ MainUnzip \/ MainMerge
    \/ MergeStep \/ MainMergeReturned

SpecMain == InitMain /\ [][NextMain]_vars

----------------------------------------------------------------------------
(* Claims about url_generate. *)

\* C1: url_generate returns (year_end - year_start + 1) * |months| * |patterns|
\* URLs when year_start <= year_end, and the empty list when year_start >
\* year_end or when the months or the patterns list is empty.
C1_Length ==
    pc = "gen_done" =>
        /\ year_start <= year_end =>
             Len(list_url) = (year_end - year_start + 1) * Len(list_months) * Len(url_base)
        /\ (year_start > year_end \/ list_months = <<>> \/ url_base = <<>>) =>
             list_url = <<>>

C1_Witness ==
    /\ pc = "gen_done"
    /\ year_end = year_start + 1
    /\ Len(list_months) = 2 /\ Len(url_base) = 2
    /\ Len(list_url) = 8

ExampleOutput ==
    << <<"h", "t", "t", "p", "s", ":", "/", "/", "x", "/", "c", "i", "g", "/", "2", "0", "2", "1", "/", "0", "1", ".", "z", "i", "p">>,
       <<"h", "t", "t", "p", "s", ":", "/", "/", "x", "/", "c", "i", "g", "/", "2", "0", "2", "1", "/", "0", "2", ".", "z", "i", "p">> >>

IsExampleCall ==
    /\ url_base = <<PatternExample>> /\ key = S_cig
    /\ year_start = 2021 /\ year_end = 2021
    /\ list_months = << <<"0", "1">>, <<"0", "2">> >>

\* C2: the URL at index ((y - year_start) * |months| + i) * |patterns| + j
\* (i, j counted from 0) is patterns[j] substituted with year y, months[i],
\* the day and the key; the spec's example call returns exactly its two URLs.
C2_Order ==
    pc = "gen_done" =>
        /\ \A y \in year_start..year_end :
           \A i \in 1..Len(list_months) :
           \A j \in 1..Len(url_base) :
              LET idx == ((y - year_start) * Len(list_months) + (i - 1)) * Len(url_base) + j
              IN  /\ idx \in DOMAIN list_url
                  /\ list_url[idx] =
                       Substitute(url_base[j], ZeroPad(y, 4),
                                  ZeroPad(ParseInt(list_months[i]), 2),
                                  ZeroPad(ParseInt(day), 2), key)
        /\ IsExampleCall => list_url = ExampleOutput

C2_Witness ==
    /\ pc = "gen_done"
    /\ IsExampleCall
    /\ list_url = ExampleOutput

HasPlaceholder(s) == \E ph \in Placeholders : Contains(s, ph)

\* every brace of the pattern belongs to one of the four placeholders
RECURSIVE WellFormedPattern(_)
WellFormedPattern(s) ==
    \/ s = <<>>
    \/ Head(s) \notin {"{", "}"} /\ WellFormedPattern(Tail(s))
    \/ \E ph \in Placeholders :
          StartsWith(s, ph) /\ WellFormedPattern(SubSeq(s, Len(ph) + 1, Len(s)))

BraceFree(s) == \A i \in 1..Len(s) : s[i] \notin {"{", "}"}

\* C3 as stated: no returned string contains {YYYY}, {MM}, {DD} or
\* {dataset-name}, whatever the pattern and the dataset key.
C3_NoPlaceholderLeft ==
    pc = "gen_done" => \A i \in 1..Len(list_url) : ~HasPlaceholder(list_url[i])

\* C3 amended: no returned string contains a placeholder when the braces of
\* every pattern are those of its placeholders and the dataset key holds no
\* brace.
C3_NoPlaceholderLeftWellFormed ==
    (/\ pc = "gen_done"
     /\ \A j \in 1..Len(url_base) : WellFormedPattern(url_base[j])
     /\ BraceFree(key))
    => \A i \in 1..Len(list_url) : ~HasPlaceholder(list_url[i])

C3_Witness ==
    /\ pc = "gen_done"
    /\ url_base = <<PH_DATASET \o PH_YYYY \o PH_DD>>
    /\ key = S_cig
    /\ list_url = << <<"c", "i", "g", "2", "0", "2", "1", "0", "1">> >>

----------------------------------------------------------------------------
(* Claims about normalize_prefix. *)

\* C4 as stated: normalize(normalize(x)) = normalize(x) for every file stem x.
C4_Idempotent == pc = "norm_done" => renormalized = normalized

\* C4 amended: normalize(normalize(x)) = normalize(x) for every file stem x
\* whose normalize(x) neither begins with 8 digits and a hyphen nor ends with
\* underscore, 4 digits, underscore, 2 digits.
C4_IdempotentOnceStripped ==
    (/\ pc = "norm_done"
     /\ ~HasLeadingStamp(normalized)
     /\ ~HasTrailingStamp(normalized))
    => renormalized = normalized

C4_Witness ==
    /\ pc = "norm_done"
    /\ file_stem = <<"2", "0", "2", "4", "0", "1", "1", "5", "-", "a", "_", "2", "0", "2", "4", "_", "0", "1">>
    /\ normalized = <<"a">>
    /\ renormalized = <<"a">>

----------------------------------------------------------------------------
(* Claims about merge_csv_files. fs0 and dirs0 are the file system and the
   directories as they were when the call was entered. *)

\* the CSV files directly under source_dir at entry that normalize to prefix p
SourcesOf(p) == {n \in GlobCsv(fs0, source_dir) : NormalizePrefix(Stem(n)) = p}

\* C5: with source_dir existing and prefixes non-empty, the returned mapping
\* has an entry exactly for the requested prefixes to which at least one CSV
\* file under source_dir normalizes, and each entry's files_merged is the
\* number of those files.
C5_Mapping ==
    (pc = "m_done" /\ source_dir \in dirs0 /\ prefixes # <<>>) =>
        /\ DOMAIN ret = {p \in Range(prefixes) : SourcesOf(p) # {}}
        /\ \A p \in DOMAIN ret : ret[p].files_merged = Cardinality(SourcesOf(p))

C5_Witness ==
    /\ pc = "m_done"
    /\ prefixes = <<S_b, S_a>>
    /\ DOMAIN fs0 = {<<"dl", N_a_01>>, <<"dl", N_a_02>>}
    /\ DOMAIN ret = {S_a}
    /\ ret[S_a].files_merged = 2

RECURSIVE SumLines(_, _)
SumLines(files, i) ==
    IF i > Len(files) THEN 0
    ELSE LineCount(fs0[<<source_dir, files[i]>>]) + SumLines(files, i + 1)

EndsWithTerminator(bytes) == bytes # <<>> /\ bytes[Len(bytes)] \in {LF, CR}

\* C6: after the call, output_dir/<prefix>.csv of every matched prefix holds
\* exactly the contents of its source files, concatenated in lexicographic
\* path order; lines is the line count of that output, and the sum of the
\* sources' line counts when every source ends with a line terminator.
C6_Concatenation ==
    pc = "m_done" =>
        \A p \in DOMAIN ret :
            LET files == SortNames(SourcesOf(p))
                out == fs[<<output_dir, p \o DotCsv>>]
            IN  /\ out = Flatten([i \in 1..Len(files) |-> fs0[<<source_dir, files[i]>>]])
                /\ ret[p].lines = LineCount(out)
                /\ (\A i \in 1..Len(files) :
                        EndsWithTerminator(fs0[<<source_dir, files[i]>>]))
                   => ret[p].lines = SumLines(files, 1)

\* C7: called with a source_dir that does not exist or with an empty prefixes
\* list, merge_csv_files raises nothing, returns an empty mapping and leaves
\* every file as it was.
C7_EmptyResult ==
    /\ pc # "m_raised"
    /\ (pc = "m_done" /\ (source_dir \notin dirs0 \/ prefixes = <<>>)) =>
          /\ ret = EmptyMap
          /\ fs = fs0

C7_Witness ==
    /\ pc = "m_done"
    /\ source_dir = "gone" /\ source_dir \notin dirs0
    /\ prefixes = <<S_a>>
    /\ output_dir = "data" /\ "data" \notin dirs0 /\ "data" \in dirs
    /\ ret = EmptyMap

InMerge == pc \in {"m_prefix", "m_copy", "m_done"}

\* C10: a call changes or creates only the files output_dir/<prefix>.csv of
\* matched prefixes and never changes or truncates a CSV file it reads as a
\* source, also when output_dir is source_dir; a second call on the same
\* sources leaves the same files and returns the same mapping.
C10_SourcesUntouched ==
    /\ InMerge =>
          \A n \in Range(all_csv_files) :
              NormalizePrefix(Stem(n)) \in Range(prefixes)
              => fs[<<source_dir, n>>] = fs0[<<source_dir, n>>]
    /\ InMerge =>
          \A q \in DOMAIN fs :
              (q \notin DOMAIN fs0 \/ fs[q] # fs0[q])
              => \E p \in Range(prefixes) :
                    SourcesOf(p) # {} /\ q = <<output_dir, p \o DotCsv>>
    /\ (pc = "m_done" /\ run = 2) => (ret = ret1 /\ fs = fs1)

----------------------------------------------------------------------------
(* Claims about main. *)

RECURSIVE OtherExpansions(_)
OtherExpansions(q) ==
    IF q > Len(anac_other_dataset_names) THEN <<>>
    ELSE UrlGenerate(year_start, year_end, ListMonths, url_base_others,
                     anac_other_dataset_names[q], DefaultDay)
         \o OtherExpansions(q + 1)

CatalogInOrder ==
    downloaded =
        UrlGenerate(year_start, year_end, ListMonths, url_base, S_cig, DefaultDay)
        \o OtherExpansions(1)
        \o list_urls_sta

CatalogLength(G) ==
    G * Len(url_base)
    + Len(anac_other_dataset_names) * G * Len(url_base_others)
    + Len(list_urls_sta)

\* C8 as stated: the catalog handed to the download service is the primary
\* expansion, then the expansion of the "other" patterns for each other key
\* in configured order, then the static URLs; its length is
\* G*|primary| + |other keys|*G*|other patterns| + |static| with
\* G = (year_end - year_start + 1) * 12.
C8_Catalog ==
    pc = "main_unzip" =>
        /\ CatalogInOrder
        /\ Len(downloaded) = CatalogLength((year_end - year_start + 1) * 12)

\* C8 amended: the same catalog, its length taken with
\* G = max(0, year_end - year_start + 1) * 12.
C8_CatalogClampedRange ==
    pc = "main_unzip" =>
        /\ CatalogInOrder
        /\ Len(downloaded) =
              CatalogLength((IF year_end >= year_start
                             THEN year_end - year_start + 1 ELSE 0) * 12)

C8_Witness ==
    /\ pc = "main_unzip"
    /\ year_end = year_start + 1
    /\ Len(url_base) = 2 /\ Len(url_base_others) = 1
    /\ Len(anac_other_dataset_names) = 2 /\ Len(list_urls_sta) = 2
    /\ Len(downloaded) = 24 * 2 + 2 * 24 * 1 + 2

IsPrefixOf(t, full) == Len(t) <= Len(full) /\ SubSeq(full, 1, Len(t)) = t

\* the complete orders of events a run may show, given the two flags
RunsAllowed ==
    {<<"download", IF unzip_do THEN "unzip" ELSE "unzip_skipped">> \o rest :
        rest \in IF merge_do
                 THEN {<<"read_prefixes">>, <<"read_prefixes", "merge", "merge_returned">>}
                 ELSE {<<"merge_skipped">>}}

\* C9: download first and once, with the whole catalog; then unzip, invoked
\* if and only if the unzip flag is true; then, only if the merge flag is
\* true, the prefix list read and merge_csv_files invoked; each step ends
\* before the next starts, and a false flag means the step is never invoked.
C9_PhaseOrder ==
    /\ \E full \in RunsAllowed : IsPrefixOf(trace, full)
    /\ pc = "main_end" => trace \in RunsAllowed
    /\ pc \in {"main_unzip", "main_merge", "main_end", "m_entry", "m_prefix", "m_copy", "m_done"}
          => downloaded = list_urls_all
    /\ pc \in {"m_entry", "m_prefix", "m_copy", "m_done"}
          => (merge_do /\ trace[Len(trace)] = "merge")
    /\ pc \in {"main_start", "main_gen_cig", "main_read_others", "main_gen_others",
               "main_concat", "main_download"} => trace = <<>>

C9_Witness ==
    /\ pc = "main_end"
    /\ unzip_do /\ merge_do
    /\ trace = <<"download", "unzip", "read_prefixes", "merge", "merge_returned">>
    /\ DOMAIN ret = {S_a}

====
